---- MODULE Spec2Model ----
(***************************************************************************)
(* Model of knrm/model/model_knrm.py: the pairwise training loop           *)
(* KNRM.train and the batch scorer KNRM.test.                              *)
(*                                                                         *)
(* Scores and losses are kept in tenths (0.9 is 9, the margin 1.0 is 10).  *)
(* A loss is an exact fraction [num, den] in lowest terms, in tenths.      *)
(* The parameters are abstracted to their provenance and the number of     *)
(* optimizer updates applied to them.                                      *)
(***************************************************************************)
EXTENDS Integers, Sequences, FiniteSets, TLC

\* ---- bounds of the model ----
MaxBatchSize == 2
MaxEvalFrequency == 2
MaxEpochs == 2
MaxTrainLines == 3
MaxValLines == 2
MaxTestLines == 3
\* the most window sizes kernel_sizes holds (the class attribute holds 3)
MaxKernelSizes == 3

\* ---- program constants ----
\* margin of the hinge loss, 1 in "1 - o_pos + o_neg" (tenths)
Margin == 10
\* smallest_val_loss = 100000 (tenths)
SmallestValLossInit == 1000000
\* exit(-1): the status the process ends with is -1 modulo 256
ExitArg == -1

\* (positive score, negative score) of one pair as the graph may produce them;
\* tanh keeps every score strictly between -1 and 1.
ScoreCases == { <<9, 2>>, <<5, 6>> }
\* scores (tenths) the loss is evaluated on by itself
ScoreValues == { -9, -5, -1, 0, 2, 5, 6, 9 }

\* ---- exact fractions ----
RECURSIVE GCD(_, _)
GCD(a, b) == IF b = 0 THEN a ELSE GCD(b, a % b)

Rat(n, d) == LET g == GCD(IF n < 0 THEN -n ELSE n, d)
             IN  IF n = 0 THEN [num |-> 0, den |-> 1]
                          ELSE [num |-> n \div g, den |-> d \div g]
RAdd(x, y) == Rat(x.num * y.den + y.num * x.den, x.den * y.den)
RDivInt(x, k) == Rat(x.num, x.den * k)
RLess(x, y) == x.num * y.den < y.num * x.den
RZero == Rat(0, 1)

RECURSIVE SeqSum(_)
SeqSum(s) == IF s = << >> THEN 0 ELSE Head(s) + SeqSum(Tail(s))

Max(a, b) == IF a >= b THEN a ELSE b
Min(a, b) == IF a <= b THEN a ELSE b

\* loss = tf.reduce_mean(tf.maximum(0.0, 1 - o_pos + o_neg))
Loss_NoClamp(o_pos, o_neg) ==
    Rat(SeqSum([i \in 1..Len(o_pos) |-> Margin - o_pos[i] + o_neg[i]]), Len(o_pos))
Loss(o_pos, o_neg) ==
    Rat(SeqSum([i \in 1..Len(o_pos) |-> Max(0, Margin - o_pos[i] + o_neg[i])]),
        Len(o_pos))

\* ---- paths ----
\* A path is a sequence of tokens; "+" of the code is concatenation, and the
\* file system treats a run of separators as one separator.
RECURSIVE Resolve(_)
Resolve(p) == IF Len(p) < 2 THEN p
              ELSE IF p[1] = "/" /\ p[2] = "/" THEN Resolve(Tail(p))
              ELSE <<p[1]>> \o Resolve(Tail(p))

CheckpointDirs == { <<"D">>, <<"D", "/">> }
\* checkpoint_dir + '/data.ckpt'
BestPath(dir) == Resolve(dir \o <<"/", "data.ckpt">>)
\* checkpoint_dir + '/final_data.ckpt'
FinalPath(dir) == Resolve(dir \o <<"/", "final_data.ckpt">>)
\* p = checkpoint_dir + 'data.ckpt'
TestPath(dir) == Resolve(dir \o <<"data.ckpt">>)

Paths == UNION { {BestPath(d), FinalPath(d), TestPath(d)} : d \in CheckpointDirs }

\* ---- parameters ----
Uninit == [init |-> "none", updates |-> 0]
RandomInit == [init |-> "random", updates |-> 0]
Stored == [init |-> "stored", updates |-> 0]
NoFile == [init |-> "nofile", updates |-> 0]

\* ---- streams ----
Closed == [open |-> FALSE, pos |-> 0]
Opened == [open |-> TRUE, pos |-> 0]

\* the lines the reader takes for its next batch: at most batch_size
NextLines(stream, nlines, bsize) ==
    [i \in 1..Min(bsize, nlines - stream.pos) |-> stream.pos + i]

\* re_pad: rows are added until there are batch_size of them (0 is a padding row)
RePad(X, bsize) == X \o [i \in 1..(bsize - Len(X)) |-> 0]

\* int(np.ceil(float(test_size) / self.batch_size))
CeilDiv(n, b) == (n + b - 1) \div b

VARIABLES
    mode, batch_size, eval_frequency, max_epochs, load_model, checkpoint_dir,
    train_lines, val_lines, test_lines, missing,
    pc, params, files, ckpt_state, exit_status,
    step, epoch, smallest_val_loss, train_loss, val_loss, n_val_batch,
    o_pos, o_neg, train_batch_loss,
    pair_stream, val_pair_stream, test_point_stream, outfile, b,
    val_steps, min_seen, min_params, n_saves, written, error

\* mode, ..., test_lines: the call and its files (a file is its number of lines).
\* missing: the file of the call that cannot be opened, "none" when all can.
\* pc: the place the call has reached; error: the exception that ended it.
\* files: the checkpoint files by path; ckpt_state: the path the directory's
\* checkpoint-state record names (empty when there is none).
\* b: the index of the test loop.
\* History kept for the properties: val_steps, the steps after which a
\* validation pass completed; min_seen, the least mean loss of those passes;
\* min_params, the parameters of the first pass that had it; n_saves, the
\* number of saver.save calls; written, the paths they wrote.

\* The graph under construction: conv, the mode of the encoder;
\* n_kernel_sizes, len(kernel_sizes); scopes, the stack of open variable
\* scopes; scope_count, the scope paths whose open count is above zero;
\* var_store, the variables created so far; g_pass, the forward pass being
\* built; g_call, the conv1d calls made in it; g_used, the variables each
\* pass reads, in the order it reads them.
VARIABLES conv, n_kernel_sizes, scopes, scope_count, var_store, g_pass, g_call, g_used

graph == <<conv, n_kernel_sizes, scopes, scope_count, var_store, g_pass, g_call, g_used>>

config == <<mode, batch_size, eval_frequency, max_epochs, load_model, checkpoint_dir,
            train_lines, val_lines, test_lines, missing>>
trainvars == <<step, epoch, smallest_val_loss, train_loss, val_loss, n_val_batch,
               o_pos, o_neg, train_batch_loss, pair_stream, val_pair_stream,
               val_steps, min_seen, min_params>>
testvars == <<test_point_stream, outfile, b>>
vars == <<config, graph, pc, params, files, ckpt_state, exit_status, trainvars, testvars,
          n_saves, written, error>>

\* ---- the checkpoint directory before the run ----
EmptyDir == [p \in Paths |-> NoFile]
\* what an earlier complete run leaves in checkpoint_dir
EarlierRun(dir) == [p \in Paths |->
                      IF p \in {BestPath(dir), FinalPath(dir)} THEN Stored ELSE NoFile]

\* the state of a process that has not started its work
Fresh ==
    /\ params = Uninit
    /\ exit_status = 0
    /\ step = 0
    /\ epoch = 0
    /\ smallest_val_loss = Rat(SmallestValLossInit, 1)
    /\ train_loss = RZero
    /\ val_loss = RZero
    /\ n_val_batch = 0
    /\ train_batch_loss = RZero
    /\ pair_stream = Closed
    /\ val_pair_stream = Closed
    /\ test_point_stream = Closed
    /\ outfile = [open |-> FALSE, lines |-> << >>]
    /\ b = 0
    /\ val_steps = {}
    /\ min_seen = RZero
    /\ min_params = Uninit
    /\ n_saves = 0
    /\ written = {}
    /\ error = "none"

\* no graph has been built
GraphFresh ==
    /\ scopes = << >>
    /\ scope_count = {}
    /\ var_store = {}
    /\ g_pass = "none"
    /\ g_call = 0
    /\ g_used = [p \in {"pos", "neg", "test"} |-> << >>]

Init ==
    /\ conv = FALSE
    /\ n_kernel_sizes = MaxKernelSizes
    /\ GraphFresh
    /\ mode \in {"train", "test"}
    /\ batch_size \in 1..MaxBatchSize
    /\ eval_frequency \in 1..MaxEvalFrequency
    /\ max_epochs \in 1..MaxEpochs
    /\ load_model \in BOOLEAN
    /\ checkpoint_dir \in CheckpointDirs
    /\ train_lines \in 0..MaxTrainLines
    /\ val_lines \in 0..MaxValLines
    /\ test_lines \in 0..MaxTestLines
    /\ missing \in {"none", "train", "val", "test", "out"}
    /\ mode = "train" => test_lines = 0 /\ missing \in {"none", "train", "val"}
    /\ mode = "test" => train_lines = 0 /\ val_lines = 0
                        /\ eval_frequency = 1 /\ max_epochs = 1
                        /\ missing \in {"none", "test", "out"}
    /\ \E earlier \in BOOLEAN :
         /\ files = IF earlier THEN EarlierRun(checkpoint_dir) ELSE EmptyDir
         /\ ckpt_state = IF earlier THEN FinalPath(checkpoint_dir) ELSE << >>
    /\ pc = IF mode = "train" THEN "train_init" ELSE "test_open"
    /\ o_pos = << >>
    /\ o_neg = << >>
    /\ Fresh

\* ================= KNRM.train =================

\* if X[u'idf'].shape[0] != self.batch_size: continue
SizeMismatch_Never(X) == FALSE
SizeMismatch(X) == Len(X) # batch_size

\* (step + 1) % self.eval_frequency == 0
EvalDue(s) == (s + 1) % eval_frequency = 0

\* val_loss < smallest_val_loss
IsBest_NotWorse(v, smallest) == ~RLess(smallest, v)
IsBest(v, smallest) == RLess(v, smallest)

\* saver.save(sess, path): the parameters are written and the directory's
\* checkpoint-state record names the path.
Save(path) ==
    /\ files' = [files EXCEPT ![path] = params]
    /\ ckpt_state' = path
    /\ n_saves' = n_saves + 1
    /\ written' = written \cup {path}

\* Faulty variant of TrainInit: a missing checkpoint falls back to a fresh model.
TrainInit_Reinit ==
    /\ pc = "train_init"
    /\ IF missing = "train"
       THEN /\ error' = "IOError"
            /\ pc' = "failed"
            /\ UNCHANGED params
       ELSE /\ params' = IF ~load_model \/ ckpt_state = << >>
                         THEN RandomInit ELSE files[ckpt_state]
            /\ pc' = "epoch"
            /\ UNCHANGED error
    /\ UNCHANGED <<config, graph, files, ckpt_state, exit_status, trainvars, testvars,
                   n_saves, written>>

\* The lines of the training file are counted, the session is created and
\* the parameters are initialised, restored from the directory's most recent
\* checkpoint, or the process exits.
TrainInit ==
    /\ pc = "train_init"
    /\ IF missing = "train"
       THEN /\ error' = "IOError"
            /\ pc' = "failed"
            /\ UNCHANGED <<params, exit_status>>
       ELSE IF ~load_model
       THEN /\ params' = RandomInit
            /\ pc' = "epoch"
            /\ UNCHANGED <<exit_status, error>>
       ELSE IF ckpt_state # << >>
       THEN /\ params' = files[ckpt_state]
            /\ pc' = "epoch"
            /\ UNCHANGED <<exit_status, error>>
       ELSE /\ pc' = "exited"
            /\ exit_status' = ExitArg % 256
            /\ UNCHANGED <<params, error>>
    /\ UNCHANGED <<config, graph, files, ckpt_state, trainvars, testvars, n_saves, written>>

\* for epoch in range(int(self.max_epochs)): pair_stream = open(...)
EpochStart ==
    /\ pc = "epoch"
    /\ epoch < max_epochs
    /\ pair_stream' = Opened
    /\ pc' = "batch"
    /\ UNCHANGED <<config, graph, params, files, ckpt_state, exit_status, testvars,
                   n_saves, written, error, step, epoch, smallest_val_loss, train_loss,
                   val_loss, n_val_batch, o_pos, o_neg, train_batch_loss,
                   val_pair_stream, val_steps, min_seen, min_params>>

\* A batch of the wrong size: the step is counted and nothing else is done.
SkipBatch ==
    /\ pc = "batch"
    /\ pair_stream.pos < train_lines
    /\ LET X == NextLines(pair_stream, train_lines, batch_size) IN
         /\ SizeMismatch(X)
         /\ pair_stream' = [pair_stream EXCEPT !.pos = @ + Len(X)]
    /\ step' = step + 1
    /\ UNCHANGED <<config, graph, pc, params, files, ckpt_state, exit_status, testvars,
                   n_saves, written, error, epoch, smallest_val_loss, train_loss,
                   val_loss, n_val_batch, o_pos, o_neg, train_batch_loss,
                   val_pair_stream, val_steps, min_seen, min_params>>

\* One training step on a full batch: sess.run([optimizer, loss]).
TrainStep ==
    /\ pc = "batch"
    /\ pair_stream.pos < train_lines
    /\ LET X == NextLines(pair_stream, train_lines, batch_size) IN
         /\ ~SizeMismatch(X)
         /\ pair_stream' = [pair_stream EXCEPT !.pos = @ + Len(X)]
    /\ step' = step + 1
    /\ \E sc \in [1..batch_size -> ScoreCases] :
         train_batch_loss' = Loss([i \in 1..batch_size |-> sc[i][1]],
                                  [i \in 1..batch_size |-> sc[i][2]])
    /\ params' = [params EXCEPT !.updates = @ + 1]
    /\ train_loss' = RAdd(train_loss, train_batch_loss')
    /\ n_val_batch' = 0
    /\ pc' = IF EvalDue(step') THEN "val_open" ELSE "batch"
    /\ UNCHANGED <<config, graph, files, ckpt_state, exit_status, testvars, n_saves, written, error,
                   epoch, smallest_val_loss, val_loss, val_pair_stream, o_pos, o_neg,
                   val_steps, min_seen, min_params>>

\* val_loss = 0; val_pair_stream = open(val_pair_file_path)
ValOpen ==
    /\ pc = "val_open"
    /\ val_loss' = RZero
    /\ IF missing = "val"
       THEN /\ error' = "IOError"
            /\ pc' = "failed"
            /\ UNCHANGED val_pair_stream
       ELSE /\ val_pair_stream' = Opened
            /\ pc' = "val_batch"
            /\ UNCHANGED error
    /\ UNCHANGED <<config, graph, params, files, ckpt_state, exit_status, testvars,
                   n_saves, written, step, epoch, smallest_val_loss, train_loss,
                   n_val_batch, o_pos, o_neg, train_batch_loss, pair_stream,
                   val_steps, min_seen, min_params>>

\* Faulty variant of ValBatch: the validation batch is run through the optimizer.
ValBatch_Updates ==
    /\ pc = "val_batch"
    /\ val_pair_stream.pos < val_lines
    /\ LET X == NextLines(val_pair_stream, val_lines, batch_size) IN
         val_pair_stream' = [val_pair_stream EXCEPT !.pos = @ + Len(X)]
    /\ \E sc \in [1..batch_size -> ScoreCases] :
         LET l == Loss([i \in 1..batch_size |-> sc[i][1]],
                       [i \in 1..batch_size |-> sc[i][2]])
         IN  val_loss' = RAdd(val_loss, l)
    /\ n_val_batch' = n_val_batch + 1
    /\ params' = [params EXCEPT !.updates = @ + 1]
    /\ UNCHANGED <<config, graph, pc, files, ckpt_state, exit_status, testvars,
                   n_saves, written, error, step, epoch, smallest_val_loss, train_loss,
                   o_pos, o_neg, train_batch_loss, pair_stream, val_steps,
                   min_seen, min_params>>

\* One batch of the validation pass: l = sess.run(loss).
ValBatch ==
    /\ pc = "val_batch"
    /\ val_pair_stream.pos < val_lines
    /\ LET X == NextLines(val_pair_stream, val_lines, batch_size) IN
         val_pair_stream' = [val_pair_stream EXCEPT !.pos = @ + Len(X)]
    /\ \E sc \in [1..batch_size -> ScoreCases] :
         LET l == Loss([i \in 1..batch_size |-> sc[i][1]],
                       [i \in 1..batch_size |-> sc[i][2]])
         IN  val_loss' = RAdd(val_loss, l)
    /\ n_val_batch' = n_val_batch + 1
    /\ UNCHANGED <<config, graph, pc, params, files, ckpt_state, exit_status, testvars,
                   n_saves, written, error, step, epoch, smallest_val_loss, train_loss,
                   o_pos, o_neg, train_batch_loss, pair_stream, val_steps,
                   min_seen, min_params>>

\* The validation stream is exhausted: it is closed, the mean is taken, and
\* the parameters are saved when the mean is below smallest_val_loss.
ValFinish ==
    /\ pc = "val_batch"
    /\ val_pair_stream.pos >= val_lines
    /\ val_pair_stream' = [val_pair_stream EXCEPT !.open = FALSE]
    /\ IF n_val_batch = 0
       THEN /\ error' = "ZeroDivisionError"
            /\ pc' = "failed"
            /\ UNCHANGED <<val_loss, train_loss, smallest_val_loss, files,
                           ckpt_state, n_saves, written, val_steps, min_seen, min_params>>
       ELSE /\ val_loss' = RDivInt(val_loss, n_val_batch)
            /\ train_loss' = RZero
            /\ IF IsBest(val_loss', smallest_val_loss)
               THEN /\ smallest_val_loss' = val_loss'
                    /\ Save(BestPath(checkpoint_dir))
               ELSE UNCHANGED <<smallest_val_loss, files, ckpt_state, n_saves, written>>
            /\ val_steps' = val_steps \cup {step}
            /\ min_seen' = IF val_steps = {} \/ RLess(val_loss', min_seen)
                           THEN val_loss' ELSE min_seen
            /\ min_params' = IF val_steps = {} \/ RLess(val_loss', min_seen)
                             THEN params ELSE min_params
            /\ pc' = "batch"
            /\ UNCHANGED error
    /\ UNCHANGED <<config, graph, params, exit_status, testvars, step, epoch,
                   n_val_batch, o_pos, o_neg, train_batch_loss, pair_stream>>

\* The pair stream is exhausted: pair_stream.close()
EpochEnd ==
    /\ pc = "batch"
    /\ pair_stream.pos >= train_lines
    /\ pair_stream' = [pair_stream EXCEPT !.open = FALSE]
    /\ epoch' = epoch + 1
    /\ pc' = "epoch"
    /\ UNCHANGED <<config, graph, params, files, ckpt_state, exit_status, testvars,
                   n_saves, written, error, step, smallest_val_loss, train_loss,
                   val_loss, n_val_batch, o_pos, o_neg, train_batch_loss,
                   val_pair_stream, val_steps, min_seen, min_params>>

\* Faulty variant of FinalSave: the final parameters go to the best-validation file.
FinalSave_OverBest ==
    /\ pc = "epoch"
    /\ epoch >= max_epochs
    /\ Save(BestPath(checkpoint_dir))
    /\ pc' = "done"
    /\ UNCHANGED <<config, graph, params, exit_status, trainvars, testvars, error>>

\* saver.save(sess, checkpoint_dir + '/final_data.ckpt')
FinalSave ==
    /\ pc = "epoch"
    /\ epoch >= max_epochs
    /\ Save(FinalPath(checkpoint_dir))
    /\ pc' = "done"
    /\ UNCHANGED <<config, graph, params, exit_status, trainvars, testvars, error>>

\* ================= KNRM.test =================

\* scores = sess.run(o): the graph is built for batch_size rows, so one score
\* comes back for every row fed, padding rows included.
Scores(X) == RePad(X, batch_size)

\* The lines of the point file are counted; with tf.Session(): the point
\* stream and then the output file are opened.
TestOpen ==
    /\ pc = "test_open"
    /\ IF missing = "test"
       THEN /\ error' = "IOError"
            /\ pc' = "failed"
            /\ UNCHANGED <<test_point_stream, outfile>>
       ELSE IF missing = "out"
       THEN /\ test_point_stream' = Opened
            /\ error' = "IOError"
            /\ pc' = "failed"
            /\ UNCHANGED outfile
       ELSE /\ test_point_stream' = Opened
            /\ outfile' = [open |-> TRUE, lines |-> << >>]
            /\ pc' = "test_load"
            /\ UNCHANGED error
    /\ UNCHANGED <<config, graph, params, files, ckpt_state, exit_status, trainvars,
                   b, n_saves, written>>

\* Faulty variant of TestLoad: the parameters are always initialised afresh.
TestLoad_AlwaysInit ==
    /\ pc = "test_load"
    /\ params' = RandomInit
    /\ pc' = "test_loop"
    /\ UNCHANGED <<config, graph, files, ckpt_state, exit_status, trainvars, testvars,
                   n_saves, written, error>>

\* saver.restore(sess, checkpoint_dir + 'data.ckpt') when load_model, and
\* tf.initialize_all_variables() otherwise.
TestLoad ==
    /\ pc = "test_load"
    /\ IF ~load_model
       THEN /\ params' = RandomInit
            /\ pc' = "test_loop"
            /\ UNCHANGED error
       ELSE IF files[TestPath(checkpoint_dir)] # NoFile
       THEN /\ params' = files[TestPath(checkpoint_dir)]
            /\ pc' = "test_loop"
            /\ UNCHANGED error
       ELSE /\ error' = "NotFoundError"
            /\ pc' = "failed"
            /\ UNCHANGED params
    /\ UNCHANGED <<config, graph, files, ckpt_state, exit_status, trainvars, testvars,
                   n_saves, written>>

\* One iteration of "for b in range(ceil(test_size / batch_size))": a batch is
\* read, scored, and every score is written on a line of its own.
TestBatch ==
    /\ pc = "test_loop"
    /\ b < CeilDiv(test_lines, batch_size)
    /\ LET X == NextLines(test_point_stream, test_lines, batch_size) IN
         /\ test_point_stream' = [test_point_stream EXCEPT !.pos = @ + Len(X)]
         /\ outfile' = [outfile EXCEPT !.lines = @ \o Scores(X)]
    /\ b' = b + 1
    /\ UNCHANGED <<config, graph, pc, params, files, ckpt_state, exit_status, trainvars,
                   n_saves, written, error>>

\* outfile.close(); test_point_stream.close()
TestFinish ==
    /\ pc = "test_loop"
    /\ b >= CeilDiv(test_lines, batch_size)
    /\ outfile' = [outfile EXCEPT !.open = FALSE]
    /\ test_point_stream' = [test_point_stream EXCEPT !.open = FALSE]
    /\ pc' = "done"
    /\ UNCHANGED <<config, graph, params, files, ckpt_state, exit_status, trainvars,
                   b, n_saves, written, error>>

Next ==
    \/ TrainInit
    \/ EpochStart
    \/ SkipBatch
    \/ TrainStep
    \/ ValOpen
    \/ ValBatch
    \/ ValFinish
    \/ EpochEnd
    \/ FinalSave
    \/ TestOpen
    \/ TestLoad
    \/ TestBatch
    \/ TestFinish

Spec == Init /\ [][Next]_vars

\* ================= the loss by itself =================

\* Any batch of scores the two forward passes can produce.
InitLoss ==
    /\ conv = FALSE
    /\ n_kernel_sizes = MaxKernelSizes
    /\ GraphFresh
    /\ mode = "train"
    /\ batch_size \in 1..MaxBatchSize
    /\ eval_frequency = 1
    /\ max_epochs = 1
    /\ load_model = FALSE
    /\ checkpoint_dir = <<"D">>
    /\ train_lines = 0
    /\ val_lines = 0
    /\ test_lines = 0
    /\ missing = "none"
    /\ files = EmptyDir
    /\ ckpt_state = << >>
    /\ pc = "loss"
    /\ o_pos \in [1..batch_size -> ScoreValues]
    /\ o_neg \in [1..batch_size -> ScoreValues]
    /\ Fresh

\* train_batch_loss = sess.run(loss) on the scores
EvalLoss ==
    /\ pc = "loss"
    /\ train_batch_loss' = Loss(o_pos, o_neg)
    /\ pc' = "loss_done"
    /\ UNCHANGED <<config, graph, params, files, ckpt_state, exit_status, testvars,
                   n_saves, written, error, step, epoch, smallest_val_loss, train_loss,
                   val_loss, n_val_batch, o_pos, o_neg, pair_stream,
                   val_pair_stream, val_steps, min_seen, min_params>>

NextLoss == EvalLoss

SpecLoss == InitLoss /\ [][NextLoss]_vars

\* ================= the scoring graph =================
\* train and test build the graph before the session starts.  A variable
\* held in an attribute of the model (embeddings, W1, W2, b1) is one
\* variable wherever it is read; the filters of tf.layers.conv1d live in the
\* variable store under the name of the variable scope the call opens.

\* a scope or variable name with the index that makes it unique (0: none)
N(name) == <<name, 0>>

IsProperPrefix(p, q) == Len(p) < Len(q) /\ SubSeq(q, 1, Len(p)) = p

\* the path and the reuse mode of the innermost open scope
CurPath == IF scopes = << >> THEN << >> ELSE scopes[Len(scopes)].path
CurReuse == IF scopes = << >> THEN "none" ELSE scopes[Len(scopes)].reuse

\* the default name of a layer made unique among the scopes opened under
\* the current one: "conv1d", then "conv1d_1", "conv1d_2", ...
RECURSIVE FirstFree(_, _, _)
FirstFree(path, prefix, idx) ==
    IF (path \o << <<prefix, idx>> >>) \notin scope_count
    THEN <<prefix, idx>>
    ELSE FirstFree(path, prefix, idx + 1)

\* tf.variable_scope(name, reuse=r): the scope prolongs the current one and
\* inherits its reuse mode unless it is given one.
EnterScope(elem, r) ==
    LET path == CurPath \o <<elem>> IN
    /\ scopes' = Append(scopes,
                        [path |-> path,
                         reuse |-> IF r # "none" THEN r ELSE CurReuse])
    /\ scope_count' = scope_count \cup {path}

\* Leaving a scope forgets the open counts of the scopes under it, so that
\* default names start again the next time the scope is entered.
AfterExit_Keep(path) == scope_count
AfterExit(path) == { q \in scope_count : ~IsProperPrefix(path, q) }

ExitScope ==
    /\ scopes' = SubSeq(scopes, 1, Len(scopes) - 1)
    /\ scope_count' = AfterExit(CurPath)

\* get_variable(name) in the current scope: whether it is allowed
CanGet(v) ==
    \/ CurReuse = "auto"
    \/ CurReuse = "true" /\ v \in var_store
    \/ CurReuse = "none" /\ v \notin var_store

Uses(v) == g_used' = [g_used EXCEPT ![g_pass] = Append(@, v)]

loopvars == <<step, epoch, smallest_val_loss, train_loss, val_loss, n_val_batch,
              o_pos, o_neg, train_batch_loss, pair_stream, val_pair_stream,
              val_steps, min_seen, min_params, test_point_stream, outfile, b,
              params, files, ckpt_state, exit_status, n_saves, written>>

InitGraph ==
    /\ mode \in {"train", "test"}
    /\ conv \in BOOLEAN
    /\ n_kernel_sizes \in 1..MaxKernelSizes
    /\ GraphFresh
    /\ batch_size = 1
    /\ eval_frequency = 1
    /\ max_epochs = 1
    /\ load_model = FALSE
    /\ checkpoint_dir = <<"D">>
    /\ train_lines = 0
    /\ val_lines = 0
    /\ test_lines = 0
    /\ missing = "none"
    /\ files = EmptyDir
    /\ ckpt_state = << >>
    /\ pc = "g_start"
    /\ o_pos = << >>
    /\ o_neg = << >>
    /\ Fresh

\* "if not conv: ... else: with tf.variable_scope("model") as scope:"
GraphBegin ==
    /\ pc = "g_start"
    /\ g_pass' = IF mode = "train" THEN "pos" ELSE "test"
    /\ IF conv
       THEN EnterScope(N("model"), "none")
       ELSE UNCHANGED <<scopes, scope_count>>
    /\ pc' = "g_embed"
    /\ UNCHANGED <<config, conv, n_kernel_sizes, var_store, g_call, g_used,
                   loopvars, error>>

\* q_embed, d_embed = tf.nn.embedding_lookup(self.embeddings, ...)
Embed ==
    /\ pc = "g_embed"
    /\ Uses(<<N("self"), N("embeddings")>>)
    /\ pc' = IF conv THEN "g_cnn" ELSE "g_score"
    /\ UNCHANGED <<config, conv, n_kernel_sizes, scopes, scope_count, var_store,
                   g_pass, g_call, loopvars, error>>

\* with tf.variable_scope("cnn", reuse=tf.AUTO_REUSE):
CnnEnter ==
    /\ pc = "g_cnn"
    /\ EnterScope(N("cnn"), "auto")
    /\ g_call' = 0
    /\ pc' = "g_conv"
    /\ UNCHANGED <<config, conv, n_kernel_sizes, var_store, g_pass, g_used,
                   loopvars, error>>

\* tf.layers.conv1d(...) without a name: the layer opens a scope under its
\* default name; two calls are made for each window size, query then document.
Conv1dScope ==
    /\ pc = "g_conv"
    /\ g_call < 2 * n_kernel_sizes
    /\ EnterScope(FirstFree(CurPath, "conv1d", 0), "none")
    /\ pc' = "g_kernel"
    /\ UNCHANGED <<config, conv, n_kernel_sizes, var_store, g_pass, g_call, g_used,
                   loopvars, error>>

\* the layer's get_variable("kernel")
Conv1dKernel ==
    /\ pc = "g_kernel"
    /\ LET v == CurPath \o <<N("kernel")>> IN
         IF CanGet(v)
         THEN /\ var_store' = var_store \cup {v}
              /\ Uses(v)
              /\ pc' = "g_bias"
              /\ UNCHANGED error
         ELSE /\ error' = "ValueError"
              /\ pc' = "failed"
              /\ UNCHANGED <<var_store, g_used>>
    /\ UNCHANGED <<config, conv, n_kernel_sizes, scopes, scope_count, g_pass,
                   g_call, loopvars>>

\* the layer's get_variable("bias"); the layer's scope is left
Conv1dBias ==
    /\ pc = "g_bias"
    /\ LET v == CurPath \o <<N("bias")>> IN
         IF CanGet(v)
         THEN /\ var_store' = var_store \cup {v}
              /\ Uses(v)
              /\ ExitScope
              /\ g_call' = g_call + 1
              /\ pc' = "g_conv"
              /\ UNCHANGED error
         ELSE /\ error' = "ValueError"
              /\ pc' = "failed"
              /\ UNCHANGED <<var_store, g_used, scopes, scope_count, g_call>>
    /\ UNCHANGED <<config, conv, n_kernel_sizes, g_pass, loopvars>>

\* the end of the "cnn" block
CnnExit ==
    /\ pc = "g_conv"
    /\ g_call >= 2 * n_kernel_sizes
    /\ ExitScope
    /\ pc' = "g_score"
    /\ UNCHANGED <<config, conv, n_kernel_sizes, var_store, g_pass, g_call, g_used,
                   loopvars, error>>

\* lo = tf.matmul(feats, self.W1 or self.W2) + self.b1
Score ==
    /\ pc = "g_score"
    /\ g_used' = [g_used EXCEPT ![g_pass] =
                    @ \o << <<N("self"), N(IF conv THEN "W2" ELSE "W1")>>,
                            <<N("self"), N("b1")>> >>]
    /\ pc' = "g_pass_end"
    /\ UNCHANGED <<config, conv, n_kernel_sizes, scopes, scope_count, var_store,
                   g_pass, g_call, loopvars, error>>

\* train: scope.reuse_variables() (conv) and the negative forward pass follows
NegativePass ==
    /\ pc = "g_pass_end"
    /\ g_pass = "pos"
    /\ g_pass' = "neg"
    /\ scopes' = IF conv
                 THEN [scopes EXCEPT ![Len(scopes)].reuse = "true"]
                 ELSE scopes
    /\ pc' = "g_embed"
    /\ UNCHANGED <<config, conv, n_kernel_sizes, scope_count, var_store, g_call,
                   g_used, loopvars, error>>

\* the last forward pass is built; the "model" block ends
GraphEnd ==
    /\ pc = "g_pass_end"
    /\ g_pass # "pos"
    /\ IF conv THEN ExitScope ELSE UNCHANGED <<scopes, scope_count>>
    /\ pc' = "g_built"
    /\ UNCHANGED <<config, conv, n_kernel_sizes, var_store, g_pass, g_call, g_used,
                   loopvars, error>>

NextGraph ==
    \/ GraphBegin
    \/ Embed
    \/ CnnEnter
    \/ Conv1dScope
    \/ Conv1dKernel
    \/ Conv1dBias
    \/ CnnExit
    \/ Score
    \/ NegativePass
    \/ GraphEnd

SpecGraph == InitGraph /\ [][NextGraph]_vars

\* ================= properties =================

Terminated == pc \in {"done", "failed", "exited"}

\* the size of the batch the reader yields next from the training stream
NextTrainBatchSize ==
    IF train_lines - pair_stream.pos < batch_size
    THEN train_lines - pair_stream.pos ELSE batch_size

\* C1: when the next batch of the training pair stream has a size other than
\* batch_size, the step that consumes it applies no optimizer update,
\* accumulates no loss, raises no error, and leaves the loop at the point
\* where the next batch of the same stream is read.
C1_MalformedBatchSkipped ==
    [][ (pc = "batch" /\ pair_stream.pos < train_lines
           /\ NextTrainBatchSize # batch_size)
        => /\ params' = params
           /\ train_loss' = train_loss
           /\ error' = "none"
           /\ pc' = "batch"
           /\ pair_stream'.open
           /\ pair_stream'.pos = pair_stream.pos + NextTrainBatchSize ]_vars

\* a batch has been skipped: more steps counted than updates applied
C1_Witness ==
    /\ mode = "train"
    /\ pc = "batch"
    /\ step > params.updates

\* the hinge of one pair, in tenths
PairHinge(pos, neg) == IF pos - neg >= 10 THEN 0 ELSE 10 - pos + neg

\* the loss is the batch mean of the pairs' hinges, zero for a single pair
\* exactly when pos - neg >= 1
LossIsMeanHinge ==
    /\ train_batch_loss.num * Len(o_pos) =
         train_batch_loss.den * SeqSum([i \in 1..Len(o_pos) |-> PairHinge(o_pos[i], o_neg[i])])
    /\ Len(o_pos) = 1 =>
         /\ (o_pos[1] - o_neg[1] >= 10) <=> (train_batch_loss = RZero)
         /\ (o_pos[1] - o_neg[1] < 10) <=> RLess(RZero, train_batch_loss)

\* C2 as stated: the loss is the batch mean of max(0, 1 - pos + neg), and for
\* pos=0.9, neg=0.2 it is 0 and for pos=0.5, neg=0.6 it is 1.1.
C2_Original ==
    pc = "loss_done" =>
        /\ LossIsMeanHinge
        /\ (o_pos = <<9>> /\ o_neg = <<2>>) => train_batch_loss = Rat(0, 1)
        /\ (o_pos = <<5>> /\ o_neg = <<6>>) => train_batch_loss = Rat(11, 1)

\* C2 amended: the loss is the batch mean of max(0, 1 - pos + neg); for a
\* single pair it is zero when pos - neg >= 1 and positive otherwise; for
\* pos=0.9, neg=0.2 it is 0.3 and for pos=0.5, neg=0.6 it is 1.1.
C2_HingeLoss ==
    pc = "loss_done" =>
        /\ LossIsMeanHinge
        /\ (o_pos = <<9>> /\ o_neg = <<2>>) => train_batch_loss = Rat(3, 1)
        /\ (o_pos = <<5>> /\ o_neg = <<6>>) => train_batch_loss = Rat(11, 1)

C2_Witness ==
    /\ pc = "loss_done"
    /\ o_pos = <<9>>
    /\ o_neg = <<2>>
    /\ train_batch_loss = Rat(3, 1)

\* C3: between two iterations of the training loop, the steps after which a
\* validation pass has been run are exactly the step counts reached that are
\* multiples of eval_frequency.
C3_Original ==
    (mode = "train" /\ pc \in {"batch", "epoch", "done"}) =>
        val_steps = { s \in 1..step : s % eval_frequency = 0 }

\* C4: a validation pass writes data.ckpt if and only if its mean loss is
\* below the loss of every earlier pass of the run; after the pass
\* smallest_val_loss is the minimum of the mean losses observed and data.ckpt
\* holds the parameters of the pass that achieved it.
C4_BestCheckpoint ==
    [][ (pc = "val_batch" /\ pc' = "batch") =>
          LET lowest == val_steps = {} \/ RLess(val_loss', min_seen)
              best == BestPath(checkpoint_dir)
          IN  /\ lowest <=> (n_saves' = n_saves + 1)
              /\ lowest => files'[best] = params
              /\ ~lowest => files' = files
              /\ smallest_val_loss' = min_seen'
              /\ files'[best] = min_params' ]_vars

\* a pass that was not the lowest has completed after a lower one
C4_Witness ==
    /\ pc = "batch"
    /\ Cardinality(val_steps) >= 2
    /\ RLess(smallest_val_loss, val_loss)
    /\ files[BestPath(checkpoint_dir)] # params

\* C5 as stated: a checkpoint is written at the end of each epoch and at the
\* end of training, the latter to a file other than data.ckpt, which it
\* leaves as it was.
C5_Original ==
    [][ /\ epoch' = epoch + 1 => n_saves' = n_saves + 1
        /\ (mode = "train" /\ pc # "done" /\ pc' = "done") =>
             /\ files'[FinalPath(checkpoint_dir)] = params
             /\ FinalPath(checkpoint_dir) # BestPath(checkpoint_dir)
             /\ files'[BestPath(checkpoint_dir)] = files[BestPath(checkpoint_dir)]
      ]_vars

\* C5 amended: the end of an epoch writes no checkpoint; the end of training
\* writes the parameters to final_data.ckpt, a file other than data.ckpt,
\* which it leaves as it was.
C5_FinalCheckpoint ==
    [][ /\ epoch' = epoch + 1 => (n_saves' = n_saves /\ files' = files)
        /\ (mode = "train" /\ pc # "done" /\ pc' = "done") =>
             /\ files'[FinalPath(checkpoint_dir)] = params
             /\ FinalPath(checkpoint_dir) # BestPath(checkpoint_dir)
             /\ files'[BestPath(checkpoint_dir)] = files[BestPath(checkpoint_dir)]
      ]_vars

\* training has ended with a best-validation checkpoint older than the final one
C5_Witness ==
    /\ mode = "train"
    /\ pc = "done"
    /\ epoch = max_epochs
    /\ val_steps # {}
    /\ files[FinalPath(checkpoint_dir)] = params
    /\ files[BestPath(checkpoint_dir)] # files[FinalPath(checkpoint_dir)]

\* C6: train called with load_model and no checkpoint in checkpoint_dir ends
\* the process with a non-zero status; the parameters are never initialised,
\* no batch is read and no checkpoint is written.
C6_MissingCheckpointFatal ==
    (mode = "train" /\ load_model /\ ckpt_state = << >> /\ pc # "train_init") =>
        /\ pc \in {"exited", "failed"}
        /\ pc = "exited" => exit_status # 0
        /\ pc = "failed" => (missing = "train" /\ error = "IOError")
        /\ params = Uninit
        /\ step = 0
        /\ pair_stream = Closed
        /\ n_saves = 0
        /\ files = EmptyDir

C6_Witness ==
    /\ mode = "train"
    /\ load_model
    /\ pc = "exited"
    /\ exit_status = 255

\* C7 as stated: whenever test has scored a batch, its parameters came from
\* a checkpoint.
C7_Original ==
    (mode = "test" /\ b > 0) => params.init = "stored"

\* C7 amended: whenever test, called with load_model, has scored a batch, its
\* parameters are the ones stored in checkpoint_dir + 'data.ckpt'.
C7_LoadsWhenAsked ==
    (mode = "test" /\ load_model /\ (b > 0 \/ pc \in {"test_loop", "done"})) =>
        /\ params.init = "stored"
        /\ params = files[TestPath(checkpoint_dir)]

C7_Witness ==
    /\ mode = "test"
    /\ load_model
    /\ b > 0
    /\ params.init = "stored"

\* C8: when test has finished, the output file holds exactly one line per
\* input pair, the i-th line being the score of the i-th pair.
C8_Original ==
    (mode = "test" /\ pc = "done") =>
        outfile.lines = [i \in 1..test_lines |-> i]

\* C9: the parameters change only when they are initialised or restored and
\* in the optimizer update of a training step; a validation pass and a
\* scored test batch leave them as they are.
C9_ParamsFrame ==
    [][ /\ pc \in {"val_open", "val_batch", "test_loop"} => params' = params
        /\ params' # params =>
             \/ pc \in {"train_init", "test_load"} /\ params = Uninit
             \/ /\ pc = "batch"
                /\ step' = step + 1
                /\ params' = [params EXCEPT !.updates = @ + 1] ]_vars

\* a validation batch has been processed after at least one update
C9_Witness ==
    /\ pc = "val_batch"
    /\ n_val_batch >= 1
    /\ params.updates >= 1

\* C10: once train or test has returned or failed, none of its streams is open.
C10_Original ==
    Terminated =>
        /\ ~pair_stream.open
        /\ ~val_pair_stream.open
        /\ ~test_point_stream.open
        /\ ~outfile.open

\* C11: when the failure to open a file is reported, no optimizer update has
\* run in train and no batch has been scored in test.
C11_Original ==
    error = "IOError" => (params.updates = 0 /\ b = 0)

\* C13: when the validation stream is exhausted and the mean is taken, at
\* least one validation batch has been processed, and the division never
\* ends the training.
C13_Original ==
    /\ (pc = "val_batch" /\ val_pair_stream.pos >= val_lines) => n_val_batch >= 1
    /\ error # "ZeroDivisionError"

\* C14: when train has completed normally, the checkpoint test restores for
\* the same checkpoint_dir, checkpoint_dir + 'data.ckpt', has been written
\* by the run.
C14_Original ==
    (mode = "train" /\ pc = "done") => TestPath(checkpoint_dir) \in written

\* C12: while the negative forward pass is built, every parameter it reads
\* is the variable the positive pass read at the same place (embedding table,
\* each filter bank and its bias, scorer weight and bias), in the unigram and
\* in the convolution mode; no variable is created for the negative pass and
\* building the graph never fails.
C12_SharedParameters ==
    /\ error = "none"
    /\ Len(g_used["neg"]) <= Len(g_used["pos"])
    /\ \A i \in 1..Len(g_used["neg"]) : g_used["neg"][i] = g_used["pos"][i]
    /\ g_pass = "neg" => \A i \in 1..Len(g_used["pos"]) :
                            g_used["pos"][i][1] = N("self") \/ g_used["pos"][i] \in var_store
    /\ g_pass = "neg" => \A v \in var_store :
                            \E i \in 1..Len(g_used["pos"]) : g_used["pos"][i] = v

\* the training graph of the convolution mode is complete
C12_Witness ==
    /\ pc = "g_built"
    /\ mode = "train"
    /\ conv
    /\ Len(g_used["neg"]) = 4 * n_kernel_sizes + 3
    /\ g_used["neg"] = g_used["pos"]
    /\ Cardinality(var_store) = 4 * n_kernel_sizes
====
